---- MODULE Spec2Model ----
(***************************************************************************)
(* Model of src/src/M1.cpp: an OBJ viewer.  Two state machines are         *)
(* described: the main program (load, frame loop, key callbacks,           *)
(* teardown) under Spec, and OBJ::loadOBJ (the geometry parser) under      *)
(* SpecParse.                                                              *)
(*                                                                         *)
(* Numbers: positions and scales are fixed-point tenths (1.0 is 10, the    *)
(* scale floor 0.1 is 1), rotations are whole degrees, time and deltaTime  *)
(* are whole seconds.  Floating-point rounding is not modelled.            *)
(***************************************************************************)
EXTENDS Integers, Sequences, FiniteSets, TLC

VARIABLES
    pc,                   \* position of main()
    objects,              \* std::vector<OBJ*> objects
    selectedObjectIndex,  \* int selectedObjectIndex
    transformMode,        \* bool transformMode   (true = rotate)
    transformMode2,       \* bool transformMode2  (true = scale)
    wireframeMode,        \* bool wireframeMode
    keys,                 \* GLFW key state: the keys glfwGetKey reports pressed
    shouldClose,          \* the window's close flag
    polygonMode,          \* the GL rasterization mode (glPolygonMode)
    drawn,                \* the draw calls of the frame being drawn, in order
    exitCode,             \* the status main() returned ("running" until it does)
    helpCount,            \* number of times displayHelp() ran
    frames,               \* number of frames started
    events,               \* number of events dispatched by the glfwPollEvents in progress
    tabCount,             \* number of Tab press events dispatched
    lastModeKey,          \* the most recent press among keys 1, 2, 3 (none: "")
    loadLog,              \* per configured object: whether its file opened
    lastEvent,            \* the event glfwPollEvents dispatched last (none: NoEvent)
    \* ---- OBJ::loadOBJ (SpecParse) ----
    ppc,                  \* position of loadOBJ
    file,                 \* the lines of the geometry file
    lineNo,               \* number of lines std::getline has read
    temp_vertices, temp_normals, vertexIndices, normalIndices,
    vertices, normals, indices

mainVars == <<pc, objects, selectedObjectIndex, transformMode, transformMode2,
              wireframeMode, keys, shouldClose, polygonMode, drawn,
              exitCode, helpCount, frames, events, tabCount, lastModeKey, loadLog, lastEvent>>
parseVars == <<ppc, file, lineNo, temp_vertices, temp_normals, vertexIndices,
               normalIndices, vertices, normals, indices>>
vars == <<mainVars, parseVars>>

----------------------------------------------------------------------------
(* Bounds of the model *)
MaxFrames == 3   \* frames the loop may start
MaxEvents == 2   \* key events one glfwPollEvents may dispatch
MaxHeld   == 2   \* keys held down at the same time
MaxDt     == 8   \* largest deltaTime of a frame, seconds
MaxFaces     == 2   \* f lines of a geometry file
MaxPositions == 3   \* v lines of a geometry file
MaxNormals   == 3   \* vn lines of a geometry file

(* Program constants *)
rotationSpeed    == 50   \* degrees per second
translationSpeed == 20   \* tenths of a unit per second (2.0f)
scaleSpeed       == 10   \* tenths per second (1.0f)
ScaleFloor       == 1    \* 0.1f, in tenths
FullTurn         == 360  \* 360.0f

DtValues == {0, 1, MaxDt}

HeldKeys == {"ESC", "H", "W", "S", "A", "D", "Q", "E", "UP", "DOWN", "LEFT", "RIGHT"}
EdgeKeys == {"TAB", "1", "2", "3", "4"}
AllKeys  == HeldKeys \cup EdgeKeys
KeyActions == {"press", "release", "repeat"}

Vec(x, y, z) == <<x, y, z>>

(* The paths main() constructs its objects from, with the position it gives each *)
Configured == << [path |-> "../assets/Suzanne.obj", position |-> Vec(-15, 0, 0)],
                 [path |-> "../assets/Suzanne.obj", position |-> Vec(15, 0, 0)] >>

\* What main() returned: nothing yet, 0, -1, or the process was ended by abort()
ExitStatuses == {"running", "0", "-1", "SIGABRT"}

LoadOutcomes == {"ok", "nofile", "abort", "throw"}

----------------------------------------------------------------------------
(* Arithmetic helpers *)

\* a remainder that is never negative, in place of fmod
fmodFloored(x, m) == x % m

\* fmod(x, m) of <cmath>: the remainder of the division truncated toward zero,
\* so the result has the sign of x.
fmod(x, m) == IF x >= 0 THEN x % m ELSE -((-x) % m)

\* the floor left out, in place of Max
MaxUnfloored(a, b) == a

\* one component of glm::max(v, vec3(floor))
Max(a, b) == IF a >= b THEN a ELSE b

\* glfwGetKey(window, k) == GLFW_PRESS, as 1 or 0
Held(ks, k) == IF k \in ks THEN 1 ELSE 0

\* glfwGetKey(k1) == GLFW_PRESS || glfwGetKey(k2) == GLFW_PRESS, as 1 or 0
HeldAny(ks, k1, k2) == IF k1 \in ks \/ k2 \in ks THEN 1 ELSE 0

----------------------------------------------------------------------------
(* class OBJ *)

\* OBJ(path): loadOBJ then setupMesh; position, rotation, scale take their
\* default member initializers.  loaded says whether loadOBJ got past the
\* open of the file (it returns early, without throwing, when it did not).
NewOBJ(path, opened) ==
    [name |-> path, loaded |-> opened, alive |-> TRUE,
     position |-> Vec(0, 0, 0), rotation |-> Vec(0, 0, 0), scale |-> Vec(10, 10, 10)]

\* line mode for every object while the flag is set, in place of DrawMode
DrawModeGlobal(selected, wireframe) == IF wireframe THEN "LINE" ELSE "FILL"

\* The rasterization mode OBJ::draw sets before glDrawElements
DrawMode(selected, wireframe) == IF selected /\ wireframe THEN "LINE" ELSE "FILL"

\* The rasterization mode OBJ::draw leaves behind: reset to fill when it was line
ModeAfterDraw(selected, wireframe) ==
    IF selected /\ wireframe THEN "FILL" ELSE DrawMode(selected, wireframe)

----------------------------------------------------------------------------
(* processInput: the three update branches *)

\* the floor applied after every key, in place of ScaleUpdate
ScaleUpdateFloorEachKey(o, ks, dt) ==
    LET scaleChange == scaleSpeed * dt
        F(v) == Max(v, ScaleFloor)
        x == F(F(o.scale[1] - scaleChange * Held(ks, "A")) + scaleChange * Held(ks, "D"))
        y == F(F(o.scale[2] + scaleChange * Held(ks, "W")) - scaleChange * Held(ks, "S"))
        z == F(F(o.scale[3] + scaleChange * Held(ks, "Q")) - scaleChange * Held(ks, "E"))
    IN [o EXCEPT !.scale = Vec(x, y, z)]

\* Scale mode: W +y, S -y, A -x, D +x, Q +z, E -z, then glm::max with 0.1
ScaleUpdate(o, ks, dt) ==
    LET scaleChange == scaleSpeed * dt
        x == o.scale[1] - scaleChange * Held(ks, "A") + scaleChange * Held(ks, "D")
        y == o.scale[2] + scaleChange * Held(ks, "W") - scaleChange * Held(ks, "S")
        z == o.scale[3] + scaleChange * Held(ks, "Q") - scaleChange * Held(ks, "E")
    IN [o EXCEPT !.scale = Vec(Max(x, ScaleFloor), Max(y, ScaleFloor), Max(z, ScaleFloor))]

\* Rotation mode: W +x, S -x, A +y, D -y, Q +z, E -z, then fmod by 360 per axis
RotateUpdate(o, ks, dt) ==
    LET rotChange == rotationSpeed * dt
        x == o.rotation[1] + rotChange * Held(ks, "W") - rotChange * Held(ks, "S")
        y == o.rotation[2] + rotChange * Held(ks, "A") - rotChange * Held(ks, "D")
        z == o.rotation[3] + rotChange * Held(ks, "Q") - rotChange * Held(ks, "E")
    IN [o EXCEPT !.rotation = Vec(fmod(x, FullTurn), fmod(y, FullTurn), fmod(z, FullTurn))]

\* Translation mode: W/UP +y, S/DOWN -y, A/LEFT -x, D/RIGHT +x, Q -z, E +z
TranslateUpdate(o, ks, dt) ==
    LET moveSpeed == translationSpeed * dt
        x == o.position[1] - moveSpeed * HeldAny(ks, "A", "LEFT")
                           + moveSpeed * HeldAny(ks, "D", "RIGHT")
        y == o.position[2] + moveSpeed * HeldAny(ks, "W", "UP")
                           - moveSpeed * HeldAny(ks, "S", "DOWN")
        z == o.position[3] - moveSpeed * Held(ks, "Q") + moveSpeed * Held(ks, "E")
    IN [o EXCEPT !.position = Vec(x, y, z)]

\* The branch processInput takes on the selected object
TransformUpdate(o, ks, dt) ==
    IF transformMode2 THEN ScaleUpdate(o, ks, dt)
    ELSE IF transformMode THEN RotateUpdate(o, ks, dt)
    ELSE TranslateUpdate(o, ks, dt)

\* the update applied to every object, in place of ProcessedFrom
ProcessedFromAll(objs, sel, dt) ==
    [i \in 1..Len(objs) |-> TransformUpdate(objs[i], keys, dt)]

\* The guard of processInput and the object its branches reach:
\* if (objects.empty() || selectedObjectIndex >= objects.size()) return;
\* OBJ* obj = objects[selectedObjectIndex];
ProcessedFrom(objs, sel, dt) ==
    IF objs = <<>> \/ sel >= Len(objs)
    THEN objs
    ELSE [objs EXCEPT ![sel + 1] = TransformUpdate(objs[sel + 1], keys, dt)]

\* The objects after processInput(window, dt)
ProcessedObjects(dt) == ProcessedFrom(objects, selectedObjectIndex, dt)

----------------------------------------------------------------------------
(* key_callback *)

\* the advance without the wrap, in place of SelectNext
SelectNextUnwrapped(sel, n) == IF n # 0 THEN sel + 1 ELSE sel

\* case GLFW_KEY_TAB
SelectNext(sel, n) == IF n # 0 THEN (sel + 1) % n ELSE sel

\* key 3 leaving the rotate flag as it is, in place of ModeFlags
ModeFlagsStale(key, tm, tm2) ==
    CASE key = "1" -> <<TRUE, FALSE>>
      [] key = "2" -> <<FALSE, FALSE>>
      [] key = "3" -> <<tm, TRUE>>
      [] OTHER     -> <<tm, tm2>>

\* the two mode flags after a press of key (cases GLFW_KEY_1, _2, _3)
ModeFlags(key, tm, tm2) ==
    CASE key = "1" -> <<TRUE, FALSE>>
      [] key = "2" -> <<FALSE, FALSE>>
      [] key = "3" -> <<FALSE, TRUE>>
      [] OTHER     -> <<tm, tm2>>

\* No event dispatched by the glfwPollEvents in progress
NoEvent == [key |-> "", action |-> ""]

\* every action handled like a press, in place of KeyCallback
KeyCallbackAnyAction(key, action) ==
    /\ selectedObjectIndex' =
           IF key = "TAB" THEN SelectNext(selectedObjectIndex, Len(objects))
           ELSE selectedObjectIndex
    /\ transformMode'  = ModeFlags(key, transformMode, transformMode2)[1]
    /\ transformMode2' = ModeFlags(key, transformMode, transformMode2)[2]
    /\ wireframeMode' = IF key = "4" THEN ~wireframeMode ELSE wireframeMode
    /\ helpCount' = IF key = "H" THEN helpCount + 1 ELSE helpCount
    /\ tabCount' = IF key = "TAB" THEN tabCount + 1 ELSE tabCount
    /\ lastModeKey' = IF key \in {"1", "2", "3"} THEN key ELSE lastModeKey

\* key_callback(window, key, scancode, action, mods)
KeyCallback(key, action) ==
    IF action # "press"
    THEN UNCHANGED <<selectedObjectIndex, transformMode, transformMode2,
                     wireframeMode, helpCount, tabCount, lastModeKey>>
    ELSE /\ selectedObjectIndex' =
                IF key = "TAB" THEN SelectNext(selectedObjectIndex, Len(objects))
                ELSE selectedObjectIndex
         /\ transformMode'  = ModeFlags(key, transformMode, transformMode2)[1]
         /\ transformMode2' = ModeFlags(key, transformMode, transformMode2)[2]
         /\ wireframeMode' = IF key = "4" THEN ~wireframeMode ELSE wireframeMode
         /\ helpCount' = IF key = "H" THEN helpCount + 1 ELSE helpCount
         /\ tabCount' = IF key = "TAB" THEN tabCount + 1 ELSE tabCount
         /\ lastModeKey' = IF key \in {"1", "2", "3"} THEN key ELSE lastModeKey

----------------------------------------------------------------------------
(* main *)

ParseIdle ==
    /\ ppc = "idle" /\ file = <<>> /\ lineNo = 0
    /\ temp_vertices = <<>> /\ temp_normals = <<>>
    /\ vertexIndices = <<>> /\ normalIndices = <<>>
    /\ vertices = <<>> /\ normals = <<>> /\ indices = <<>>

Init ==
    /\ pc = "window"
    /\ objects = <<>>
    /\ selectedObjectIndex = 0
    /\ transformMode = FALSE
    /\ transformMode2 = FALSE
    /\ wireframeMode = FALSE
    /\ keys = {}
    /\ shouldClose = FALSE
    /\ polygonMode = "FILL"
    /\ drawn = <<>>
    /\ exitCode = "running"
    /\ helpCount = 0
    /\ frames = 0
    /\ events = 0
    /\ tabCount = 0
    /\ lastModeKey = ""
    /\ loadLog = <<>>
    /\ lastEvent = NoEvent
    /\ ParseIdle

\* glfwCreateWindow: on failure main returns -1
CreateWindow ==
    /\ pc = "window"
    /\ \E ok \in BOOLEAN :
          IF ok THEN pc' = "glad" /\ exitCode' = exitCode
                ELSE pc' = "done" /\ exitCode' = "-1"
    /\ UNCHANGED <<objects, selectedObjectIndex, transformMode, transformMode2,
                   wireframeMode, keys, shouldClose, polygonMode, drawn,
                   helpCount, frames, events, tabCount, lastModeKey, loadLog, lastEvent>>
    /\ UNCHANGED parseVars

\* gladLoadGLLoader: on failure main returns -1
LoadGL ==
    /\ pc = "glad"
    /\ \E ok \in BOOLEAN :
          IF ok THEN pc' = "load" /\ exitCode' = exitCode
                ELSE pc' = "done" /\ exitCode' = "-1"
    /\ UNCHANGED <<objects, selectedObjectIndex, transformMode, transformMode2,
                   wireframeMode, keys, shouldClose, polygonMode, drawn,
                   helpCount, frames, events, tabCount, lastModeKey, loadLog, lastEvent>>
    /\ UNCHANGED parseVars

\* One statement pair of the try block: objects.push_back(new OBJ(path)) and
\* the assignment of its position.  outcome is what the environment does to
\* the construction: the file opens ("ok"), it does not ("nofile"), or the
\* allocation throws ("throw") and the catch clause ends the try block.
\* When the file does not open the vectors stay empty and setupMesh takes
\* &vertices[0] of an empty vector: the build either goes on ("nofile") or
\* traps there ("abort").
LoadObject(outcome) ==
    /\ pc = "load"
    /\ LET i == Len(loadLog) + 1
           cfg == Configured[i]
       IN /\ loadLog' = Append(loadLog, outcome)
          /\ IF outcome = "throw"
             THEN /\ objects' = objects
                  /\ pc' = "check"
                  /\ exitCode' = exitCode
             ELSE IF outcome = "abort"
             THEN /\ objects' = objects
                  /\ pc' = "done"
                  /\ exitCode' = "SIGABRT"
             ELSE /\ objects' = Append(objects,
                         [NewOBJ(cfg.path, outcome = "ok") EXCEPT !.position = cfg.position])
                  /\ pc' = IF i = Len(Configured) THEN "check" ELSE "load"
                  /\ exitCode' = exitCode
    /\ UNCHANGED <<selectedObjectIndex, transformMode, transformMode2,
                   wireframeMode, keys, shouldClose, polygonMode, drawn,
                   helpCount, frames, events, tabCount, lastModeKey, lastEvent>>
    /\ UNCHANGED parseVars

\* if (objects.empty()) return -1; otherwise displayHelp() and enter the loop
CheckLoaded ==
    /\ pc = "check"
    /\ IF objects = <<>>
       THEN pc' = "done" /\ exitCode' = "-1" /\ helpCount' = helpCount
       ELSE pc' = "loop" /\ exitCode' = exitCode /\ helpCount' = helpCount + 1
    /\ UNCHANGED <<objects, selectedObjectIndex, transformMode, transformMode2,
                   wireframeMode, keys, shouldClose, polygonMode, drawn,
                   frames, events, tabCount, lastModeKey, loadLog, lastEvent>>
    /\ UNCHANGED parseVars

\* Loop test passed: deltaTime = glfwGetTime() - then
\* processInput(window, deltaTime)
ProcessInput(dt) ==
    /\ pc = "loop"
    /\ ~shouldClose
    /\ frames < MaxFrames
    /\ frames' = frames + 1
    /\ shouldClose' = (shouldClose \/ "ESC" \in keys)
    /\ helpCount' = helpCount + Held(keys, "H")
    /\ objects' = ProcessedObjects(dt)
    /\ pc' = "draw"
    /\ UNCHANGED <<selectedObjectIndex, transformMode, transformMode2, wireframeMode,
                   keys, polygonMode, drawn, exitCode, events, tabCount, lastModeKey,
                   loadLog, lastEvent>>
    /\ UNCHANGED parseVars

\* objects[i]->draw(shaderProgram, i == selectedObjectIndex, wireframeMode)
DrawObject ==
    /\ pc = "draw"
    /\ Len(drawn) < Len(objects)
    /\ LET i == Len(drawn)
           selected == (i = selectedObjectIndex)
       IN /\ drawn' = Append(drawn, [index |-> i, selected |-> selected,
                                     mode |-> DrawMode(selected, wireframeMode),
                                     object |-> objects[i + 1]])
          /\ polygonMode' = ModeAfterDraw(selected, wireframeMode)
    /\ UNCHANGED <<pc, objects, selectedObjectIndex, transformMode, transformMode2,
                   wireframeMode, keys, shouldClose, exitCode, helpCount,
                   frames, events, tabCount, lastModeKey, loadLog, lastEvent>>
    /\ UNCHANGED parseVars

\* the events polled before the draw loop has ended, in place of SwapBuffers
SwapBuffersEarly ==
    /\ pc = "draw"
    /\ Len(drawn) <= Len(objects)
    /\ pc' = "poll"
    /\ drawn' = <<>>
    /\ UNCHANGED <<objects, selectedObjectIndex, transformMode, transformMode2,
                   wireframeMode, keys, shouldClose, polygonMode,
                   exitCode, helpCount, frames, events, tabCount, lastModeKey, loadLog, lastEvent>>
    /\ UNCHANGED parseVars

\* glfwSwapBuffers, then glfwPollEvents starts
SwapBuffers ==
    /\ pc = "draw"
    /\ Len(drawn) = Len(objects)
    /\ pc' = "poll"
    /\ drawn' = <<>>
    /\ UNCHANGED <<objects, selectedObjectIndex, transformMode, transformMode2,
                   wireframeMode, keys, shouldClose, polygonMode,
                   exitCode, helpCount, frames, events, tabCount, lastModeKey, loadLog, lastEvent>>
    /\ UNCHANGED parseVars

\* The key state GLFW keeps for glfwGetKey, after a key event
KeyState(ks, key, action) ==
    IF key \notin HeldKeys THEN ks
    ELSE IF action = "release" THEN ks \ {key}
    ELSE ks \cup {key}

\* glfwPollEvents dispatches one key event: GLFW updates its key state and
\* calls key_callback.  A held key is released or repeats, a key that is up
\* is pressed.
KeyEvent(key, action) ==
    /\ pc = "poll"
    /\ events < MaxEvents
    /\ frames < MaxFrames
    /\ key \in HeldKeys =>
          IF action = "press" THEN key \notin keys /\ Cardinality(keys) < MaxHeld
                              ELSE key \in keys
    /\ events' = events + 1
    /\ keys' = KeyState(keys, key, action)
    /\ KeyCallback(key, action)
    /\ lastEvent' = [key |-> key, action |-> action]
    /\ UNCHANGED <<pc, objects, shouldClose, polygonMode, drawn,
                   exitCode, frames, loadLog>>
    /\ UNCHANGED parseVars

\* glfwPollEvents dispatches a close request of the window
CloseRequest ==
    /\ pc = "poll"
    /\ events < MaxEvents
    /\ ~shouldClose
    /\ events' = events + 1
    /\ shouldClose' = TRUE
    /\ lastEvent' = [key |-> "WINDOW", action |-> "close"]
    /\ UNCHANGED <<pc, objects, selectedObjectIndex, transformMode, transformMode2,
                   wireframeMode, keys, polygonMode, drawn, exitCode,
                   helpCount, frames, tabCount, lastModeKey, loadLog>>
    /\ UNCHANGED parseVars

\* glfwPollEvents returns; back to the loop test
PollReturn ==
    /\ pc = "poll"
    /\ pc' = "loop"
    /\ events' = 0
    /\ lastEvent' = NoEvent
    /\ UNCHANGED <<objects, selectedObjectIndex, transformMode, transformMode2,
                   wireframeMode, keys, shouldClose, polygonMode, drawn,
                   exitCode, helpCount, frames, tabCount, lastModeKey, loadLog>>
    /\ UNCHANGED parseVars

\* Loop test failed: glfwWindowShouldClose(window)
LeaveLoop ==
    /\ pc = "loop"
    /\ shouldClose
    /\ pc' = "teardown"
    /\ UNCHANGED <<objects, selectedObjectIndex, transformMode, transformMode2,
                   wireframeMode, keys, shouldClose, polygonMode, drawn,
                   exitCode, helpCount, frames, events, tabCount, lastModeKey, loadLog, lastEvent>>
    /\ UNCHANGED parseVars

\* for (auto obj : objects) delete obj;  one iteration
DeleteObject ==
    /\ pc = "teardown"
    /\ \E i \in 1..Len(objects) :
          /\ objects[i].alive
          /\ \A j \in 1..(i - 1) : ~objects[j].alive
          /\ objects' = [objects EXCEPT ![i].alive = FALSE]
    /\ UNCHANGED <<pc, selectedObjectIndex, transformMode, transformMode2,
                   wireframeMode, keys, shouldClose, polygonMode, drawn,
                   exitCode, helpCount, frames, events, tabCount, lastModeKey, loadLog, lastEvent>>
    /\ UNCHANGED parseVars

\* the context torn down while objects are still alive, in place of Terminate
TerminateEarly ==
    /\ pc = "teardown"
    /\ objects' = <<>>
    /\ exitCode' = "0"
    /\ pc' = "done"
    /\ UNCHANGED <<selectedObjectIndex, transformMode, transformMode2,
                   wireframeMode, keys, shouldClose, polygonMode, drawn,
                   helpCount, frames, events, tabCount, lastModeKey, loadLog, lastEvent>>
    /\ UNCHANGED parseVars

\* objects.clear(); glfwTerminate(); return 0
Terminate ==
    /\ pc = "teardown"
    /\ \A i \in 1..Len(objects) : ~objects[i].alive
    /\ objects' = <<>>
    /\ exitCode' = "0"
    /\ pc' = "done"
    /\ UNCHANGED <<selectedObjectIndex, transformMode, transformMode2,
                   wireframeMode, keys, shouldClose, polygonMode, drawn,
                   helpCount, frames, events, tabCount, lastModeKey, loadLog, lastEvent>>
    /\ UNCHANGED parseVars

Next ==
    \/ CreateWindow
    \/ LoadGL
    \/ \E outcome \in LoadOutcomes : LoadObject(outcome)
    \/ CheckLoaded
    \/ \E dt \in DtValues : ProcessInput(dt)
    \/ DrawObject
    \/ SwapBuffers
    \/ \E key \in AllKeys, action \in KeyActions : KeyEvent(key, action)
    \/ CloseRequest
    \/ PollReturn
    \/ LeaveLoop
    \/ DeleteObject
    \/ Terminate

Spec == Init /\ [][Next]_vars

----------------------------------------------------------------------------
(* OBJ::loadOBJ: the text of a geometry file *)

\* A face token is a string of items: numbers, slashes, or text that is no
\* number.  std::replace turns each slash into a space.
Num(n) == [kind |-> "num", val |-> n]
Slash  == [kind |-> "slash", val |-> 0]
Space  == [kind |-> "space", val |-> 0]
Junk   == [kind |-> "junk", val |-> 0]

\* The four forms of a vertex reference, and a token that is no number
TokA(a)        == <<Num(a)>>
TokAT(a, t)    == <<Num(a), Slash, Num(t)>>
TokAN(a, n)    == <<Num(a), Slash, Slash, Num(n)>>
TokATN(a, t, n) == <<Num(a), Slash, Num(t), Slash, Num(n)>>
TokJunk        == <<Junk>>

VLine(p)  == [prefix |-> "v",  xyz |-> p,    tokens |-> <<>>]
VnLine(p) == [prefix |-> "vn", xyz |-> p,    tokens |-> <<>>]
FLine(ts) == [prefix |-> "f",  xyz |-> <<>>, tokens |-> ts]
OtherLine(pre) == [prefix |-> pre, xyz |-> <<>>, tokens |-> <<>>]

\* glm::vec3(0.0f, 1.0f, 0.0f), the normal given to a corner without one
DefaultNormal == Vec(0, 10, 0)

\* The i-th v line and the i-th vn line of the files checked (tenths)
PositionOf(i) ==
    CASE i = 1 -> Vec(0, 0, 0)
      [] i = 2 -> Vec(10, 0, 0)
      [] i = 3 -> Vec(0, 10, 0)
      [] OTHER -> Vec(0, 0, 10 * i)
NormalOf(i) ==
    CASE i = 1 -> Vec(10, 0, 0)
      [] i = 2 -> Vec(0, 0, 10)
      [] i = 3 -> Vec(0, -10, 0)
      [] OTHER -> Vec(10, 10, 10 * i)

\* What an uninitialized unsigned int may hold.  A GLuint is written as its
\* 32-bit two's complement reading: -1 is 0xFFFFFFFF.
UninitValues == {0, 2, -1}

\* a < b as unsigned int, for b a container size
ULess(a, b) == a >= 0 /\ a < b

\* std::replace(vertexData.begin(), vertexData.end(), '/', ' ')
Replaced(str) == [i \in 1..Len(str) |-> IF str[i] = Slash THEN Space ELSE str[i]]

\* vertexData.find(' ') != npos
HasSpace(str) == \E i \in 1..Len(str) : str[i] = Space
\* the first space taken for a second one, in place of HasSecondSpace
HasSecondSpaceFromStart(str) == \E i \in 1..Len(str) : str[i] = Space

\* vertexData.find(' ', vertexData.find(' ') + 1) != npos
HasSecondSpace(str) ==
    \E i \in 1..Len(str), j \in 1..Len(str) : i < j /\ str[i] = Space /\ str[j] = Space

RECURSIVE SkipSpaces(_)
SkipSpaces(str) ==
    IF str # <<>> /\ Head(str) = Space THEN SkipSpaces(Tail(str)) ELSE str

\* stream >> value for an unsigned int.  st is [rest, good].  A stream that
\* is not good, or that ends before a character is read, leaves the value as
\* it was; text that is no number stores 0; both set the fail state.
Extract(st, old) ==
    LET rest == SkipSpaces(st.rest) IN
    IF ~st.good \/ rest = <<>>
    THEN [val |-> old, rest |-> <<>>, good |-> FALSE]
    ELSE IF Head(rest).kind = "num"
    THEN [val |-> Head(rest).val, rest |-> Tail(rest), good |-> TRUE]
    ELSE [val |-> 0, rest |-> rest, good |-> FALSE]

\* a corner pushed only when the line still has a token, in place of Corner
CornerSkipMissing(c) ==
    LET vertexData == IF c.iss # <<>> THEN Replaced(Head(c.iss)) ELSE c.vertexData
        e1 == Extract([rest |-> vertexData, good |-> TRUE], c.vertexIndex)
        e2 == Extract(e1, c.textureIndex)
        e3 == Extract(e2, c.normalIndex)
        twoFields == HasSpace(vertexData) /\ HasSecondSpace(vertexData)
    IN IF c.iss = <<>> THEN c
       ELSE [iss |-> Tail(c.iss),
             vertexData |-> vertexData,
             vertexIndex |-> e1.val,
             textureIndex |-> IF HasSpace(vertexData) THEN e2.val ELSE c.textureIndex,
             normalIndex |-> IF twoFields THEN e3.val ELSE c.normalIndex,
             vIdx |-> Append(c.vIdx, e1.val - 1),
             nIdx |-> IF twoFields THEN Append(c.nIdx, e3.val - 1) ELSE c.nIdx]

\* One pass of the loop over the three corners of an f line.  c carries the
\* locals of the f block: the tokens iss has left, vertexData, vertexIndex,
\* normalIndex, and the index vectors.  iss >> vertexData leaves vertexData
\* as it was when the line has no token left.
Corner(c) ==
    LET vertexData == IF c.iss # <<>> THEN Replaced(Head(c.iss)) ELSE c.vertexData
        e1 == Extract([rest |-> vertexData, good |-> TRUE], c.vertexIndex)
        e2 == Extract(e1, c.textureIndex)
        e3 == Extract(e2, c.normalIndex)
        twoFields == HasSpace(vertexData) /\ HasSecondSpace(vertexData)
    IN [iss |-> IF c.iss # <<>> THEN Tail(c.iss) ELSE <<>>,
        vertexData |-> vertexData,
        vertexIndex |-> e1.val,
        textureIndex |-> IF HasSpace(vertexData) THEN e2.val ELSE c.textureIndex,
        normalIndex |-> IF twoFields THEN e3.val ELSE c.normalIndex,
        vIdx |-> Append(c.vIdx, e1.val - 1),
        nIdx |-> IF twoFields THEN Append(c.nIdx, e3.val - 1) ELSE c.nIdx]

\* The f block: three corners.  uv, ut, un are what the uninitialized
\* vertexIndex, textureIndex and normalIndex hold.
FaceLine(tokens, uv, ut, un, vIdx, nIdx) ==
    Corner(Corner(Corner([iss |-> tokens, vertexData |-> <<>>,
                          vertexIndex |-> uv, textureIndex |-> ut, normalIndex |-> un,
                          vIdx |-> vIdx, nIdx |-> nIdx])))

\* the last recorded normal index never used, in place of FlatNormal
FlatNormalOffByOne(i, nIdx, rawNormals) ==
    IF i < Len(nIdx)
    THEN IF ULess(nIdx[i], Len(rawNormals)) THEN rawNormals[nIdx[i] + 1] ELSE DefaultNormal
    ELSE DefaultNormal

\* The normal flattening gives occurrence i (1-based here, 0-based in the code)
FlatNormal(i, nIdx, rawNormals) ==
    IF i <= Len(nIdx)
    THEN IF ULess(nIdx[i], Len(rawNormals)) THEN rawNormals[nIdx[i] + 1] ELSE DefaultNormal
    ELSE DefaultNormal

----------------------------------------------------------------------------
(* The geometry files checked *)

FacePatterns == {<<"a", "a", "a", "a">>, <<"at", "at", "at", "at">>,
                 <<"an", "an", "an", "an">>, <<"atn", "atn", "atn", "atn">>,
                 <<"atn", "an", "a", "at">>, <<"junk", "a", "atn", "a">>}
VRefs == {<<1, 2, 3, 1>>, <<MaxPositions, 0, MaxPositions + 1, 2>>}
NRefs == {<<1, 2, 3, 1>>, <<MaxNormals, 1, MaxNormals + 1, 2>>}

Token(form, a, n) ==
    CASE form = "a"   -> TokA(a)
      [] form = "at"  -> TokAT(a, n)
      [] form = "an"  -> TokAN(a, n)
      [] form = "atn" -> TokATN(a, n, n)
      [] OTHER        -> TokJunk

FaceLines ==
    {FLine([i \in 1..k |-> Token(pat[i], vr[i], nr[i])]) :
        pat \in FacePatterns, vr \in VRefs, nr \in NRefs, k \in {0, 2, 3, 4}}

FaceSeqs == UNION {[1..n -> FaceLines] : n \in 0..MaxFaces}

\* v lines, vn lines, f lines; some files also hold lines of other prefixes
GeometryFile(nN, others, fs) ==
    [i \in 1..MaxPositions |-> VLine(PositionOf(i))]
       \o [i \in 1..nN |-> VnLine(NormalOf(i))]
       \o others
       \o fs

Files ==
    {GeometryFile(nN, <<>>, fs) : nN \in {0, MaxNormals}, fs \in FaceSeqs}
    \cup {GeometryFile(nN, <<OtherLine("#"), OtherLine("vt"), OtherLine("")>>, <<f>>) :
              nN \in {0, MaxNormals}, f \in FaceLines}

----------------------------------------------------------------------------
(* OBJ::loadOBJ as a state machine *)

MainIdle ==
    /\ pc = "idle" /\ objects = <<>> /\ selectedObjectIndex = 0
    /\ transformMode = FALSE /\ transformMode2 = FALSE /\ wireframeMode = FALSE
    /\ keys = {} /\ shouldClose = FALSE /\ polygonMode = "FILL" /\ drawn = <<>>
    /\ exitCode = "running" /\ helpCount = 0 /\ frames = 0 /\ events = 0
    /\ tabCount = 0 /\ lastModeKey = "" /\ loadLog = <<>> /\ lastEvent = NoEvent

InitParse ==
    /\ MainIdle
    /\ ppc = "open"
    /\ file \in Files
    /\ lineNo = 0
    /\ temp_vertices = <<>> /\ temp_normals = <<>>
    /\ vertexIndices = <<>> /\ normalIndices = <<>>
    /\ vertices = <<>> /\ normals = <<>> /\ indices = <<>>

\* std::ifstream file(filePath); if (!file) return
OpenFile ==
    /\ ppc = "open"
    /\ \E opened \in BOOLEAN : ppc' = IF opened THEN "read" ELSE "failed"
    /\ UNCHANGED <<file, lineNo, temp_vertices, temp_normals, vertexIndices,
                   normalIndices, vertices, normals, indices>>
    /\ UNCHANGED mainVars

\* One pass of while (std::getline(file, line))
ReadLine ==
    /\ ppc = "read"
    /\ lineNo < Len(file)
    /\ LET line == file[lineNo + 1] IN
       /\ lineNo' = lineNo + 1
       /\ temp_vertices' = IF line.prefix = "v" THEN Append(temp_vertices, line.xyz)
                           ELSE temp_vertices
       /\ temp_normals' = IF line.prefix = "vn" THEN Append(temp_normals, line.xyz)
                          ELSE temp_normals
       /\ IF line.prefix = "f"
          THEN \E uv \in UninitValues, ut \in UninitValues, un \in UninitValues :
                  LET c == FaceLine(line.tokens, uv, ut, un, vertexIndices, normalIndices)
                  IN /\ vertexIndices' = c.vIdx
                     /\ normalIndices' = c.nIdx
          ELSE UNCHANGED <<vertexIndices, normalIndices>>
    /\ UNCHANGED <<ppc, file, vertices, normals, indices>>
    /\ UNCHANGED mainVars

\* getline fails at the end of the file
EndOfFile ==
    /\ ppc = "read"
    /\ lineNo = Len(file)
    /\ ppc' = "flatten"
    /\ UNCHANGED <<file, lineNo, temp_vertices, temp_normals, vertexIndices,
                   normalIndices, vertices, normals, indices>>
    /\ UNCHANGED mainVars

\* One pass of the loop over vertexIndices.  temp_vertices[vertexIndex] with
\* the index out of range is an out-of-bounds read: the load crashes, or
\* the read gives some vector (g).
FlattenStep ==
    /\ ppc = "flatten"
    /\ Len(vertices) < Len(vertexIndices)
    /\ LET i == Len(vertices) + 1
           vertexIndex == vertexIndices[i]
       IN IF ULess(vertexIndex, Len(temp_vertices))
          THEN /\ vertices' = Append(vertices, temp_vertices[vertexIndex + 1])
               /\ normals' = Append(normals, FlatNormal(i, normalIndices, temp_normals))
               /\ indices' = Append(indices, i - 1)
               /\ ppc' = ppc
          ELSE \/ /\ ppc' = "crashed"
                  /\ UNCHANGED <<vertices, normals, indices>>
               \/ \E g \in {Vec(7, 7, 7)} :
                  /\ vertices' = Append(vertices, g)
                  /\ normals' = Append(normals, FlatNormal(i, normalIndices, temp_normals))
                  /\ indices' = Append(indices, i - 1)
                  /\ ppc' = ppc
    /\ UNCHANGED <<file, lineNo, temp_vertices, temp_normals, vertexIndices, normalIndices>>
    /\ UNCHANGED mainVars

\* The loop ends; "Loaded n vertices" is printed and loadOBJ returns
FlattenDone ==
    /\ ppc = "flatten"
    /\ Len(vertices) = Len(vertexIndices)
    /\ ppc' = "done"
    /\ UNCHANGED <<file, lineNo, temp_vertices, temp_normals, vertexIndices,
                   normalIndices, vertices, normals, indices>>
    /\ UNCHANGED mainVars

NextParse ==
    \/ OpenFile
    \/ ReadLine
    \/ EndOfFile
    \/ FlattenStep
    \/ FlattenDone

SpecParse == InitParse /\ [][NextParse]_vars

----------------------------------------------------------------------------
(* Properties of the main program, checked under Spec *)

\* The interaction mode the two flags encode: the branch processInput takes
Mode == IF transformMode2 THEN "Scale" ELSE IF transformMode THEN "Rotate" ELSE "Translate"

Axes == 1..3
InFrameLoop == pc \in {"loop", "draw", "poll"}
\* a step that is the loop test passing and processInput running
FrameStep == pc = "loop" /\ pc' = "draw"
\* the signed number of steps the held keys give an axis: inc held adds one, dec held takes one
Steps(inc, dec) == Held(keys, inc) - Held(keys, dec)
Abs(x) == IF x < 0 THEN -x ELSE x

\* The key that increases and the key that decreases each axis, per mode
RotateInc == <<"W", "A", "Q">>
RotateDec == <<"S", "D", "E">>
ScaleInc  == <<"D", "W", "Q">>
ScaleDec  == <<"A", "S", "E">>

\* C1 (state part): every rotation component of every object lies strictly
\* inside (-360, 360).
C1_RotationInRange ==
    \A i \in 1..Len(objects) : \A a \in Axes :
        /\ objects[i].rotation[a] > -FullTurn
        /\ objects[i].rotation[a] < FullTurn

\* C1 (step part): a Rotate-mode frame leaves on each axis of the selected
\* object a value that differs from the accumulated value (old value plus the
\* signed steps of the held keys times rotationSpeed * dt) by a whole number
\* of turns and has its sign: a wrap, not a clamp.
C1_RotateFrameWraps ==
    (FrameStep /\ Mode = "Rotate" /\ selectedObjectIndex < Len(objects)) =>
        \E dt \in DtValues : \A a \in Axes :
            LET acc == objects[selectedObjectIndex + 1].rotation[a]
                         + rotationSpeed * dt * Steps(RotateInc[a], RotateDec[a])
                new == objects'[selectedObjectIndex + 1].rotation[a]
            IN /\ (acc - new) % FullTurn = 0
               /\ Abs(new) < FullTurn
               /\ (acc >= 0 => new >= 0)
               /\ (acc <= 0 => new <= 0)

\* C1: after any sequence of frames and key events every rotation component
\* lies strictly inside (-360, 360), and the normalization of a Rotate-mode
\* frame is a sign-keeping wrap by 360, not a clamp.
C1_RotationWrapped == []C1_RotationInRange /\ [][C1_RotateFrameWraps]_vars

\* C1 witness: one frame has wrapped a rotation past +360 on one axis and
\* past -360 on another (the remainders keep their signs).
C1_Witness ==
    \E i \in 1..Len(objects) : \E a \in Axes, b \in Axes :
        /\ objects[i].rotation[a] = rotationSpeed * MaxDt - FullTurn
        /\ objects[i].rotation[b] = FullTurn - rotationSpeed * MaxDt
        /\ rotationSpeed * MaxDt > FullTurn

\* C2 (state part): every scale component of every object is at least 0.1.
C2_ScaleFloored ==
    \A i \in 1..Len(objects) : \A a \in Axes : objects[i].scale[a] >= ScaleFloor

\* C2 (step part): a Scale-mode frame leaves on each axis of the selected
\* object the larger of 0.1 and the stored value plus the signed steps of the
\* held keys times scaleSpeed * dt; the stored value is the floored one, so
\* an increase after a floor resumes from 0.1.
C2_ScaleFrameFloors ==
    (FrameStep /\ Mode = "Scale" /\ selectedObjectIndex < Len(objects)) =>
        \E dt \in DtValues : \A a \in Axes :
            LET acc == objects[selectedObjectIndex + 1].scale[a]
                         + scaleSpeed * dt * Steps(ScaleInc[a], ScaleDec[a])
                new == objects'[selectedObjectIndex + 1].scale[a]
            IN new = IF acc < ScaleFloor THEN ScaleFloor ELSE acc

\* C2: the scale components never end a frame below 0.1, however long or
\* with however large a dt a decreasing key is held, and a later increasing
\* key resumes from the floored value 0.1.
C2_ScaleNeverBelowFloor == []C2_ScaleFloored /\ [][C2_ScaleFrameFloors]_vars

\* C2 witness: a scale component was driven below 0.1 and floored, and a
\* later frame increased it from the floor: it is 0.1 + scaleSpeed * dt,
\* which no sum of whole steps from 1.0 gives.
C2_Witness ==
    \E i \in 1..Len(objects) : \E a \in Axes : \E dt \in DtValues \ {0} :
        /\ objects[i].scale[a] = ScaleFloor + scaleSpeed * dt
        /\ (objects[i].scale[a] - 10) % scaleSpeed # 0

\* C3: with n > 0 objects in the registry, selectedObjectIndex is the number
\* of Tab presses so far modulo n, hence in [0, n); on an empty registry the
\* Tab case leaves the index as it is.
C3_SelectionIsTabCountModN ==
    /\ objects # <<>> =>
          /\ selectedObjectIndex = tabCount % Len(objects)
          /\ selectedObjectIndex >= 0
          /\ selectedObjectIndex < Len(objects)
    /\ \A sel \in 0..Len(Configured) : SelectNext(sel, 0) = sel

\* C3 witness: three Tab presses on two objects, between frames, have
\* wrapped the selection round to the second object.
C3_Witness ==
    /\ InFrameLoop
    /\ Len(objects) = 2
    /\ tabCount = 3
    /\ selectedObjectIndex = 1
    /\ frames >= 2

\* C4: every draw call of a frame rasterizes its object in line mode exactly
\* when the object is the selected one and the wireframe flag is set, and the
\* rasterization mode is fill whenever a draw call has returned.
C4_WireframeOnlySelected ==
    /\ \A k \in 1..Len(drawn) :
          /\ drawn[k].index = k - 1
          /\ drawn[k].mode = "LINE" <=> (drawn[k].index = selectedObjectIndex /\ wireframeMode)
          /\ drawn[k].index # selectedObjectIndex => drawn[k].mode = "FILL"
    /\ polygonMode = "FILL"

\* C4 witness: a frame with the flag set has drawn the selected first object
\* in line mode and then the unselected second object in fill mode.
C4_Witness ==
    /\ pc = "draw"
    /\ wireframeMode
    /\ Len(drawn) = 2
    /\ drawn[1].mode = "LINE"
    /\ drawn[2].mode = "FILL"
    /\ selectedObjectIndex = 0

\* C5 (as claimed): an object whose geometry file could not be opened is not
\* in the registry: the registry holds exactly the objects whose file
\* opened, each with loaded geometry.
C5_UnopenableObjectDropped ==
    /\ \A i \in 1..Len(objects) : objects[i].loaded
    /\ pc \in {"load", "check", "loop", "draw", "poll"} =>
          Len(objects) = Cardinality({i \in 1..Len(loadLog) : loadLog[i] = "ok"})

\* C7 (as claimed): when every configured file failed to open, main does not
\* enter the frame loop and returns a non-zero status.
C7_NoObjectsLoadedExits ==
    (Len(loadLog) = Len(Configured) /\ \A i \in 1..Len(loadLog) : loadLog[i] = "nofile") =>
        /\ pc \in {"load", "check", "done"}
        /\ pc = "done" => exitCode # "0"

\* The mode a press of key 1, 2 or 3 selects; Translate before any press
ModeOfKey(key) ==
    CASE key = "1" -> "Rotate"
      [] key = "3" -> "Scale"
      [] OTHER     -> "Translate"

\* C10 (state part): the mode is the one of the most recent press among keys
\* 1, 2, 3 (Translate before any), and the two flags are never both set.
C10_ModeIsLastPressed ==
    /\ Mode = ModeOfKey(lastModeKey)
    /\ ~(transformMode /\ transformMode2)

\* C10 (step part): a frame changes at most one of position, rotation and
\* scale, the one of the current mode, and changes neither mode flag.
C10_OneBranchPerFrame ==
    FrameStep =>
        /\ transformMode' = transformMode /\ transformMode2' = transformMode2
        /\ \A i \in 1..Len(objects) :
              /\ Mode # "Translate" => objects'[i].position = objects[i].position
              /\ Mode # "Rotate" => objects'[i].rotation = objects[i].rotation
              /\ Mode # "Scale" => objects'[i].scale = objects[i].scale

\* C10: the mode starts as Translate, is always the mode of the most recent
\* press among keys 1, 2, 3, the two flags are never both set, and each frame
\* takes exactly the update branch of that mode.
C10_ModeLastPressWins == []C10_ModeIsLastPressed /\ [][C10_OneBranchPerFrame]_vars

\* C10 witness: Rotate was selected and used (a rotation is non-zero), then 3
\* was pressed and a frame ran in Scale mode (a scale has changed).
C10_Witness ==
    /\ pc = "draw"
    /\ lastModeKey = "3"
    /\ Mode = "Scale"
    /\ \E i \in 1..Len(objects) : objects[i].rotation # Vec(0, 0, 0)
    /\ \E i \in 1..Len(objects) : objects[i].scale # Vec(10, 10, 10)

----------------------------------------------------------------------------
(* Properties of OBJ::loadOBJ, checked under SpecParse *)

FLinesOf(f) == SelectSeq(f, LAMBDA l : l.prefix = "f")
NumFLines(f) == Len(FLinesOf(f))
RawNormalsOf(f) ==
    LET vn == SelectSeq(f, LAMBDA l : l.prefix = "vn") IN [i \in 1..Len(vn) |-> vn[i].xyz]
NumSlashes(tok) == Cardinality({i \in 1..Len(tok) : tok[i] = Slash})

\* three v lines, three vn lines, f 1//1 2//2 3//3
C6File ==
    <<VLine(PositionOf(1)), VLine(PositionOf(2)), VLine(PositionOf(3)),
      VnLine(NormalOf(1)), VnLine(NormalOf(2)), VnLine(NormalOf(3)),
      FLine(<<TokAN(1, 1), TokAN(2, 2), TokAN(3, 3)>>)>>

\* C6 (as claimed): after loading the file with three v lines, three vn lines
\* and f 1//1 2//2 3//3, the flattened normal of each corner is the vn line
\* the corner names.
C6_EmptyTextureFieldNormals ==
    (ppc = "done" /\ file = C6File) =>
        normals = <<NormalOf(1), NormalOf(2), NormalOf(3)>>

\* C8: after a load that ran to its end, vertices, normals and indices each
\* hold three entries per f line of the file, whatever the tokens of the f
\* lines, and indices[i] = i.
C8_ThreePerFaceLine ==
    ppc = "done" =>
        /\ Len(vertices) = 3 * NumFLines(file)
        /\ Len(normals) = 3 * NumFLines(file)
        /\ Len(indices) = 3 * NumFLines(file)
        /\ \A i \in 1..Len(indices) : indices[i] = i - 1

\* C8 witness: a load has ended on a file with an f line of four tokens and an
\* f line of fewer than three, and holds six flattened vertices.
C8_Witness ==
    /\ ppc = "done"
    /\ NumFLines(file) = 2
    /\ \E i \in 1..2 : Len(FLinesOf(file)[i].tokens) = 4
    /\ \E i \in 1..2 : Len(FLinesOf(file)[i].tokens) < 3
    /\ Len(vertices) = 6

\* Files where the first f line has three tokens without a normal field and
\* the second has three tokens of the form a/t/n
MixedDensity(f) ==
    /\ NumFLines(f) = 2
    /\ Len(FLinesOf(f)[1].tokens) = 3
    /\ \A k \in 1..3 : NumSlashes(FLinesOf(f)[1].tokens[k]) < 2
    /\ \A k \in 1..3 : FLinesOf(f)[1].tokens[k][1].kind = "num"
    /\ Len(FLinesOf(f)[2].tokens) = 3
    /\ \A k \in 1..3 : Len(FLinesOf(f)[2].tokens[k]) = 5

\* the vn line a normal reference n of the file names, or the default
NamedNormal(f, n) ==
    IF n >= 1 /\ n <= Len(RawNormalsOf(f)) THEN RawNormalsOf(f)[n] ELSE DefaultNormal

\* C9: flattening pairs occurrence i with the i-th recorded position index
\* and the i-th recorded normal index: vertices[i] is the position of
\* vertexIndices[i] (when that index is inside temp_vertices), normals[i] is
\* the normal of normalIndices[i] when there is an i-th normal index and it
\* is inside temp_normals, (0,1,0) otherwise.  So when a face without normal
\* fields precedes a face a/t/n, the normals the second face names go to the
\* corners of the first, and the corners of the second get (0,1,0).
C9_PositionalNormals ==
    /\ ppc \in {"flatten", "done"} =>
          \A i \in 1..Len(vertices) :
             /\ ULess(vertexIndices[i], Len(temp_vertices)) =>
                   vertices[i] = temp_vertices[vertexIndices[i] + 1]
             /\ normals[i] =
                   IF i <= Len(normalIndices) /\ ULess(normalIndices[i], Len(temp_normals))
                   THEN temp_normals[normalIndices[i] + 1]
                   ELSE DefaultNormal
    /\ (ppc = "done" /\ MixedDensity(file)) =>
          /\ \A k \in 1..3 :
                normals[k] = NamedNormal(file, FLinesOf(file)[2].tokens[k][5].val)
          /\ \A k \in 4..6 : normals[k] = DefaultNormal

\* C9 witness: a load has ended on a file whose first face names no normals
\* and whose second face names vn lines that exist: the first corner holds a
\* vn line, the fourth the default.
C9_Witness ==
    /\ ppc = "done"
    /\ MixedDensity(file)
    /\ RawNormalsOf(file) # <<>>
    /\ normals[1] # DefaultNormal
    /\ normals[4] = DefaultNormal
    /\ ~ULess(normalIndices[3], Len(temp_normals))

----------------------------------------------------------------------------
(* Properties of the frame loop, checked under Spec (continued) *)

\* the registry as main configured it, every file opened
InitialObject(i) == [NewOBJ(Configured[i].path, TRUE) EXCEPT !.position = Configured[i].position]

\* C11 (state part): processInput's guard: on an empty registry, or with the
\* selected index at or past the size of the registry, the update leaves
\* every object as it is, whatever keys are held and whatever dt is.
C11_GuardedUpdate ==
    \A dt \in DtValues :
        /\ \A sel \in 0..Len(Configured) : ProcessedFrom(<<>>, sel, dt) = <<>>
        /\ \A sel \in Len(objects)..Len(Configured) :
              ProcessedFrom(objects, sel, dt) = objects

\* C11 (step part): a frame keeps the registry's size, leaves every
\* unselected object exactly as it was, and changes of the selected object at
\* most the component of the current mode.
C11_FrameTouchesSelectedComponent ==
    FrameStep =>
        /\ Len(objects') = Len(objects)
        /\ \A i \in 1..Len(objects) :
              IF i # selectedObjectIndex + 1
              THEN objects'[i] = objects[i]
              ELSE \/ objects'[i] = [objects[i] EXCEPT !.position = objects'[i].position]
                      /\ Mode = "Translate"
                   \/ objects'[i] = [objects[i] EXCEPT !.rotation = objects'[i].rotation]
                      /\ Mode = "Rotate"
                   \/ objects'[i] = [objects[i] EXCEPT !.scale = objects'[i].scale]
                      /\ Mode = "Scale"

\* C11: the per-frame update changes only the selected object's transform,
\* and of it only the component of the current mode; unselected objects and
\* the other two components stay as they were, and on an empty registry or
\* an out-of-range selection the update changes nothing.
C11_OnlySelectedComponentChanges ==
    []C11_GuardedUpdate /\ [][C11_FrameTouchesSelectedComponent]_vars

\* C11 witness: with keys held, frames have moved and rotated the selected
\* second object while the first object still has its configured transform.
C11_Witness ==
    /\ pc = "draw"
    /\ Len(objects) = 2
    /\ selectedObjectIndex = 1
    /\ keys # {}
    /\ objects[1] = InitialObject(1)
    /\ objects[2].position # Configured[2].position
    /\ objects[2].rotation # Vec(0, 0, 0)

----------------------------------------------------------------------------
(* Properties of OBJ::loadOBJ, checked under SpecParse (continued) *)

\* every token of every f line has the form a or a/t
NoNormalField(f) ==
    \A i \in 1..Len(f) : \A k \in 1..Len(f[i].tokens) :
        /\ f[i].tokens[k][1].kind = "num"
        /\ NumSlashes(f[i].tokens[k]) <= 1

\* v 0 0 0, v 1 0 0, v 0 1 0, f 1 2 3
C12File == GeometryFile(0, <<>>, <<FLine(<<TokA(1), TokA(2), TokA(3)>>)>>)

\* C12: while and after loading a file whose face tokens all have the form
\* a or a/t, no normal index is recorded, every flattened normal is
\* (0,1,0), the flattened vertex of each corner that has a token naming an
\* existing position is that position, in token order, and a load that ran
\* to its end holds three entries per f line with indices 0 .. 3F-1; the file
\* v 0 0 0, v 1 0 0, v 0 1 0, f 1 2 3 gives those three positions, three
\* times (0,1,0) and indices 0, 1, 2.
C12_NoNormalFieldDefaults ==
    NoNormalField(file) =>
        /\ normalIndices = <<>>
        /\ \A i \in 1..Len(normals) : normals[i] = DefaultNormal
        /\ \A i \in 1..Len(vertices) :
              LET face == FLinesOf(file)[((i - 1) \div 3) + 1]
                  c == ((i - 1) % 3) + 1
              IN (c <= Len(face.tokens) /\ face.tokens[c][1].val \in 1..MaxPositions) =>
                     vertices[i] = PositionOf(face.tokens[c][1].val)
        /\ ppc = "done" =>
              /\ Len(vertices) = 3 * NumFLines(file)
              /\ Len(normals) = 3 * NumFLines(file)
              /\ indices = [i \in 1..(3 * NumFLines(file)) |-> i - 1]
        /\ (ppc = "done" /\ file = C12File) =>
              /\ vertices = <<PositionOf(1), PositionOf(2), PositionOf(3)>>
              /\ normals = <<DefaultNormal, DefaultNormal, DefaultNormal>>
              /\ indices = <<0, 1, 2>>

\* C12 witness: a load has ended on a file with vn lines and two f lines of
\* a/t tokens naming positions 1, 2, 3, and holds six default normals.
C12_Witness ==
    /\ ppc = "done"
    /\ NoNormalField(file)
    /\ temp_normals # <<>>
    /\ NumFLines(file) = 2
    /\ \A j \in 1..2 : FLinesOf(file)[j].tokens = <<TokAT(1, 1), TokAT(2, 2), TokAT(3, 3)>>
    /\ vertices = <<PositionOf(1), PositionOf(2), PositionOf(3),
                    PositionOf(1), PositionOf(2), PositionOf(3)>>
    /\ \A i \in 1..6 : normals[i] = DefaultNormal

----------------------------------------------------------------------------
(* Properties of the frame loop: events and frame order, checked under Spec *)

\* a step in which glfwPollEvents dispatches the event (key, action)
EventStep(key, action) ==
    /\ pc = "poll" /\ events' = events + 1
    /\ lastEvent' = [key |-> key, action |-> action]

\* the startup step that prints the help block once
StartupHelpStep == pc = "check" /\ pc' = "loop"

\* C13 (as claimed): Esc and H act on their press edge and not while held.
\* The control summary is emitted once by each press of H and by nothing
\* else after startup, so a frame with H held emits none; the step that
\* dispatches a press of Esc raises the termination request, and a frame
\* raises none; and a press of Esc or H leaves mode, selection, wireframe
\* flag and every transform as they were.
C13_EscAndHelpArePressEdges ==
    [][/\ EventStep("H", "press") => helpCount' = helpCount + 1
       /\ (~EventStep("H", "press") /\ ~StartupHelpStep) => helpCount' = helpCount
       /\ EventStep("ESC", "press") => shouldClose'
       /\ FrameStep => shouldClose' = shouldClose
       /\ (EventStep("H", "press") \/ EventStep("ESC", "press")) =>
              UNCHANGED <<transformMode, transformMode2, selectedObjectIndex,
                          wireframeMode, objects>>]_vars

\* C13, the part about H alone: a frame emits no control summary.
C13_NoHelpFromHeldKey == [][FrameStep => helpCount' = helpCount]_vars

\* C14 (state part): every draw call of the frame being drawn was made with
\* the transform the object has after the frame's update, with selected set
\* exactly for the object at the selected index and with the current
\* wireframe flag; when all of a non-empty registry is drawn, exactly one
\* draw call was made as selected.
C14_DrawnAsUpdated ==
    /\ pc # "draw" => drawn = <<>>
    /\ Len(drawn) <= Len(objects)
    /\ \A k \in 1..Len(drawn) :
          /\ drawn[k].index = k - 1
          /\ drawn[k].object = objects[k]
          /\ drawn[k].selected <=> (k - 1 = selectedObjectIndex)
          /\ drawn[k].mode = "LINE" <=> (drawn[k].selected /\ wireframeMode)
    /\ (pc = "draw" /\ Len(drawn) = Len(objects) /\ objects # <<>>) =>
          Cardinality({k \in 1..Len(drawn) : drawn[k].selected}) = 1

\* C14 (step part): update, draws, poll follow each other in that order; the
\* update is one step with one dt, taken before any draw call of the frame;
\* inside the loop no other step changes an object; the poll starts only
\* when every object is drawn; and selection, mode flags and wireframe flag
\* change only in a step that dispatches a key press, with no draw call of
\* the frame outstanding.
C14_FrameOrder ==
    /\ pc = "loop" => pc' \in {"loop", "draw", "teardown"}
    /\ pc = "draw" => pc' \in {"draw", "poll"}
    /\ pc = "poll" => pc' \in {"poll", "loop"}
    /\ FrameStep =>
          /\ drawn = <<>> /\ drawn' = <<>>
          /\ \E dt \in DtValues : objects' = ProcessedFrom(objects, selectedObjectIndex, dt)
    /\ (pc \in {"loop", "draw", "poll"} /\ objects' # objects) => FrameStep
    /\ (pc = "draw" /\ pc' = "poll") => Len(drawn) = Len(objects)
    /\ <<selectedObjectIndex, transformMode, transformMode2, wireframeMode>>'
          # <<selectedObjectIndex, transformMode, transformMode2, wireframeMode>> =>
          /\ \E key \in EdgeKeys : EventStep(key, "press")
          /\ drawn = <<>>

\* C14: each frame runs update, then the draw of all objects, then the event
\* poll; every transform mutation of the frame uses one dt and is complete
\* before the first draw call; selection, mode and wireframe flag change
\* only in key-press callbacks dispatched by the poll after the last draw;
\* so one frame draws all objects with one selection and one flag, none with
\* a partly updated transform, and exactly one as selected.
C14_UpdateDrawPollInOrder == []C14_DrawnAsUpdated /\ [][C14_FrameOrder]_vars

\* C14 witness: in a later frame, after Tab moved the selection and the
\* update moved the second object, both objects are drawn, the second as
\* selected and with its moved position.
C14_Witness ==
    /\ pc = "draw"
    /\ frames >= 2
    /\ Len(drawn) = 2
    /\ selectedObjectIndex = 1
    /\ ~drawn[1].selected /\ drawn[2].selected
    /\ drawn[2].object.position # Configured[2].position

\* the position, rotation and scale of the objects
Transforms(objs) ==
    [i \in 1..Len(objs) |-> <<objs[i].position, objs[i].rotation, objs[i].scale>>]

\* C15 (state part): teardown starts only with the quit signal raised and
\* no draw call outstanding, and status 0 is returned only at the end, with
\* the registry cleared.
C15_TeardownAfterQuit ==
    /\ pc = "teardown" => shouldClose /\ drawn = <<>>
    /\ exitCode = "0" => pc = "done" /\ shouldClose /\ objects = <<>>

\* C15 (step part): the quit signal stays raised; the frame whose update
\* raises it goes on to its draw calls and draws every object before the
\* poll; with the signal raised the step from the loop test is the one into
\* teardown; a teardown step draws nothing, leaves every transform as it is
\* and destroys an object or ends the teardown; and the teardown ends, with
\* status 0, only when every object is destroyed.
C15_QuitThenOrderedTeardown ==
    /\ (shouldClose /\ pc \in {"loop", "draw", "poll", "teardown"}) => shouldClose'
    /\ (FrameStep /\ shouldClose') =>
          \E dt \in DtValues : objects' = ProcessedFrom(objects, selectedObjectIndex, dt)
    /\ (shouldClose /\ pc = "draw" /\ pc' # pc) => pc' = "poll" /\ Len(drawn) = Len(objects)
    /\ (shouldClose /\ pc = "loop" /\ pc' # pc) => pc' = "teardown" /\ objects' = objects
    /\ (~shouldClose /\ pc = "loop") => pc' # "teardown"
    /\ pc = "teardown" =>
          /\ pc' \in {"teardown", "done"}
          /\ drawn' = <<>>
          /\ pc' = "teardown" =>
                /\ Transforms(objects') = Transforms(objects)
                /\ \A i \in 1..Len(objects) : objects'[i].alive => objects[i].alive
          /\ pc' = "done" =>
                /\ \A i \in 1..Len(objects) : ~objects[i].alive
                /\ objects' = <<>>
                /\ exitCode' = "0"

\* C15: once the quit signal is raised the loop ends at its next loop test,
\* the frame that observed the signal still completing its update and draw;
\* then every object of the registry is destroyed, only then is the
\* windowing context torn down and status 0 returned; nothing is drawn or
\* mutated once teardown has started.
C15_OrderedShutdown == []C15_TeardownAfterQuit /\ [][C15_QuitThenOrderedTeardown]_vars

\* C15 witness: main has returned 0 after two objects ran for at least two
\* frames and a frame saw Esc held.
C15_Witness ==
    /\ pc = "done"
    /\ exitCode = "0"
    /\ "ESC" \in keys
    /\ frames >= 2
    /\ Len(loadLog) = 2

\* The keys that raise and the keys that lower each axis (x, y, z), per mode
IncKeys(mode) ==
    CASE mode = "Translate" -> <<{"D", "RIGHT"}, {"W", "UP"}, {"E"}>>
      [] mode = "Rotate"    -> <<{"W"}, {"A"}, {"Q"}>>
      [] OTHER              -> <<{"D"}, {"W"}, {"Q"}>>
DecKeys(mode) ==
    CASE mode = "Translate" -> <<{"A", "LEFT"}, {"S", "DOWN"}, {"Q"}>>
      [] mode = "Rotate"    -> <<{"S"}, {"D"}, {"E"}>>
      [] OTHER              -> <<{"A"}, {"S"}, {"E"}>>
SpeedOf(mode) ==
    CASE mode = "Translate" -> translationSpeed
      [] mode = "Rotate"    -> rotationSpeed
      [] OTHER              -> scaleSpeed
ComponentOf(o, mode) ==
    CASE mode = "Translate" -> o.position
      [] mode = "Rotate"    -> o.rotation
      [] OTHER              -> o.scale

\* new is what the mode's normalization, applied once, makes of acc
NormalizedOnce(mode, acc, new) ==
    CASE mode = "Translate" -> new = acc
      [] mode = "Rotate"    -> /\ (acc - new) % FullTurn = 0
                               /\ Abs(new) < FullTurn
                               /\ (acc >= 0 => new >= 0)
                               /\ (acc <= 0 => new <= 0)
      [] OTHER              -> new = IF acc < ScaleFloor THEN ScaleFloor ELSE acc

\* whether one of the keys is held, as 1 or 0
AnyOf(ks) == IF ks \cap keys # {} THEN 1 ELSE 0

\* a frame whose update gives each axis of the selected object the once
\* normalized sum of its old value and speed * dt times StepsOn(axis)
FrameAdds(StepsOn(_)) ==
    (FrameStep /\ selectedObjectIndex < Len(objects)) =>
        \E dt \in DtValues : \A a \in Axes :
            NormalizedOnce(Mode,
                ComponentOf(objects[selectedObjectIndex + 1], Mode)[a]
                    + SpeedOf(Mode) * dt * StepsOn(a),
                ComponentOf(objects'[selectedObjectIndex + 1], Mode)[a])

\* C16 (as claimed): in a frame every held key of the current mode's mapping
\* adds its own signed step speed * dt to its axis: the net change of an
\* axis is speed * dt times the number of held keys that raise it minus the
\* number of held keys that lower it, normalized once after all keys.
C16_EveryHeldKeyAddsItsStep ==
    [][FrameAdds(LAMBDA a : Cardinality(IncKeys(Mode)[a] \cap keys)
                              - Cardinality(DecKeys(Mode)[a] \cap keys))]_vars

\* C16 (amended): in a frame every held control of the current mode's
\* mapping adds its signed step speed * dt to its own axis, where the two
\* keys of a Translate pair (W/Up, S/Down, A/Left, D/Right) are one control
\* that adds one step however many of the two are held: the net change of an
\* axis depends only on that axis's keys, is zero when both directions are
\* held, and the wrap or floor is applied once to the sum, not between keys.
C16_EveryHeldControlAddsItsStep ==
    [][FrameAdds(LAMBDA a : AnyOf(IncKeys(Mode)[a]) - AnyOf(DecKeys(Mode)[a]))]_vars

\* C16 witness: the second frame ran in Translate mode with W and Up both
\* held and has raised y of the selected object by one step of that frame.
C16_Witness ==
    /\ pc = "draw"
    /\ frames = 2
    /\ Mode = "Translate"
    /\ keys = {"W", "UP"}
    /\ \E dt \in DtValues \ {0} :
          objects[selectedObjectIndex + 1].position[2] = translationSpeed * dt

----------------------------------------------------------------------------
(* Properties of OBJ::loadOBJ: references out of range, checked under SpecParse *)

NumVLines(f) == Len(SelectSeq(f, LAMBDA l : l.prefix = "v"))

\* an f line of the file has, among the corners it is read for, a token that
\* is no number or names a position outside 1 .. number of v lines
HasBadPositionReference(f) ==
    \E i \in 1..Len(f) : \E c \in 1..3 :
        /\ f[i].prefix = "f"
        /\ c <= Len(f[i].tokens)
        /\ \/ f[i].tokens[c][1].kind # "num"
           \/ f[i].tokens[c][1].val \notin 1..NumVLines(f)

\* C17 (as claimed): a file with an f line that references a position
\* outside [1, len(positions)], index 0 and unparsable tokens included, is
\* rejected before flattening: its load never gets to flatten anything or to
\* its end; and flattening never reads the positions out of bounds: a load
\* that flattens holds only indices inside the positions read, and does not
\* crash.
C17_BadReferenceFailsLoad ==
    /\ HasBadPositionReference(file) => ppc \notin {"flatten", "done", "crashed"}
    /\ ppc \in {"flatten", "done"} =>
          \A i \in 1..Len(vertexIndices) : ULess(vertexIndices[i], Len(temp_vertices))
    /\ ppc # "crashed"

\* C17, the part about the read alone: flattening is never about to read
\* temp_vertices at an index outside it.
C17_NoReadOutOfBounds ==
    (ppc = "flatten" /\ Len(vertices) < Len(vertexIndices)) =>
        ULess(vertexIndices[Len(vertices) + 1], Len(temp_vertices))

----------------------------------------------------------------------------
(* Properties of key_callback, checked under Spec *)

\* C18 (step part): what the dispatch of one key event leaves unchanged.
C18_EventEffects ==
    LET key == lastEvent'.key
        action == lastEvent'.action
    IN  (EventStep(key, action) /\ key \in AllKeys /\ action \in KeyActions) =>
            /\ objects' = objects
            /\ (action = "press" /\ key = "TAB") =>
                  UNCHANGED <<transformMode, transformMode2, wireframeMode>>
            /\ (action = "press" /\ key \in {"1", "2", "3"}) =>
                  UNCHANGED <<selectedObjectIndex, wireframeMode>>
            /\ (action = "press" /\ key = "4") =>
                  /\ UNCHANGED <<selectedObjectIndex, transformMode, transformMode2>>
                  /\ wireframeMode' = ~wireframeMode
            /\ (action = "press" /\ key = "H") =>
                  UNCHANGED <<selectedObjectIndex, transformMode, transformMode2,
                              wireframeMode>>
            /\ action # "press" =>
                  UNCHANGED <<selectedObjectIndex, transformMode, transformMode2,
                              wireframeMode, helpCount, shouldClose, polygonMode,
                              drawn, exitCode, tabCount, lastModeKey>>

\* C18 (step part): the wireframe flag changes in no step but a press of 4,
\* so two presses of 4 bring it back.
C18_FlagOnlyByKey4 ==
    wireframeMode' # wireframeMode => EventStep("4", "press")

\* C18: a press of Tab, 1, 2, 3, 4 or H leaves position, rotation and scale
\* of every object unchanged; Tab leaves mode and wireframe flag unchanged;
\* 1, 2, 3 leave selection and wireframe flag unchanged; 4 leaves selection
\* and mode unchanged and inverts the flag, which nothing else changes, so
\* pressing 4 twice restores it; and a key release or key repeat changes no
\* state of the program.
C18_PressesLeaveTransforms == [][C18_EventEffects /\ C18_FlagOnlyByKey4]_vars

\* C18 witness: the first poll has dispatched two presses of 4 and the
\* wireframe flag is back to off.
C18_Witness ==
    /\ pc = "poll"
    /\ frames = 1
    /\ events = 2
    /\ lastEvent = [key |-> "4", action |-> "press"]
    /\ ~wireframeMode

====
